---- MODULE Spec2Model ----
(***************************************************************************)
(* Case Recommender: ItemKNN (item-based collaborative filtering) and      *)
(* ContentBased item recommendation.                                       *)
(*                                                                         *)
(* Conventions of the model.                                               *)
(*  - Python indices are 0-based, sequences here are 1-based: item index   *)
(*    i of the model is Python index i-1.  Orders and ties are unchanged.  *)
(*  - Similarities are fixed-point integers.  For ItemKNN a value v stands *)
(*    for v / SimMax (SimMax is similarity 1.0); for ContentBased a value  *)
(*    v of the similarity file stands for v / 10 (8 is 0.8).               *)
(*  - A score is a pair <<num, den>> standing for the real num / den; the  *)
(*    model computes with exact reals, not with floating point.            *)
(*  - None is modelled per field: NoMatrix for matrix-valued fields, None  *)
(*    for the optional integer k_neighbors, "None" for similarity_file.    *)
(***************************************************************************)
EXTENDS Integers, Sequences, FiniteSets, TLC

\* ------------------------------------------------------------ bounds ----
MaxLines == 3          \* lines of the train file
MaxSimLines == 2       \* lines of the similarity file

\* ----------------------------------------------- the values of inputs ----
UserIds == {1, 2}
ItemIds == {1, 2, 3}
FeedbackVals == {0, 1}
SimMax == 2             \* the fixed-point value of similarity 1.0
SimVals == 0..SimMax
NaN == -1               \* float('nan'), met in the similarity file only
SimFileVals == {2, 8, NaN}
None == -2              \* k_neighbors=None: k is derived from the item count
KConfigs == {None, 2}
RankLengths == {1, 2}

NoMatrix == << >>

VARIABLES
    algo,              \* "ItemKNN" or "ContentBased": the class constructed
    train_file,        \* lines <<user, item, feedback>> of the train file
    test_users,        \* users that appear in the test file only
    similarity_file,   \* "None" or "file"
    similarity,        \* lines <<item_a, "item_b", value>> of the similarity file
    similarity_metric, \* what the configured metric yields on the item columns
    as_binary,
    as_similar_first,
    rank_length,
    k_arg,             \* the constructor argument k_neighbors
    train_set,         \* what the reader made of the train file
    users,
    items,
    item_to_item_id,
    k_neighbors,
    matrix,
    si_matrix,
    similar_items,
    users_profile,
    ranking,
    state,             \* position in the life cycle driven by compute()
    err,               \* exception that ended the life cycle, "" if none
    run,               \* 1: first pipeline run, 2: second run on the same inputs
    first_ranking      \* the ranking the first run produced

inputs == <<algo, train_file, test_users, similarity_file, similarity,
            similarity_metric, as_binary, as_similar_first, rank_length, k_arg,
            train_set, users, items, item_to_item_id>>
vars == <<algo, train_file, test_users, similarity_file, similarity,
          similarity_metric, as_binary, as_similar_first, rank_length, k_arg,
          train_set, users, items, item_to_item_id,
          k_neighbors, matrix, si_matrix, similar_items, users_profile,
          ranking, state, err, run, first_ranking>>

\* ----------------------------------------------------------- helpers ----
Min(a, b) == IF a <= b THEN a ELSE b

RECURSIVE SubsetsUpTo(_, _)
SubsetsUpTo(S, k) ==
    IF k = 0 THEN {{}}
    ELSE LET P == SubsetsUpTo(S, k - 1) IN P \cup {p \cup {x} : p \in P, x \in S}

RECURSIVE SumSet(_, _)
SumSet(S, f) ==
    IF S = {} THEN 0
    ELSE LET x == CHOOSE y \in S : TRUE IN f[x] + SumSet(S \ {x}, f)

RECURSIVE SumSeq(_)
SumSeq(s) == IF s = << >> THEN 0 ELSE Head(s) + SumSeq(Tail(s))

RECURSIVE Concat(_)
Concat(ss) == IF ss = << >> THEN << >> ELSE Head(ss) \o Concat(Tail(ss))

Range(s) == {s[k] : k \in DOMAIN s}

Perms(S) == {p \in [1..Cardinality(S) -> S] : Range(p) = S}

\* sorted(set): ascending sequence of a set of integers
SortedSeq(S) ==
    [p \in 1..Cardinality(S) |->
        CHOOSE x \in S : Cardinality({y \in S : y < x}) = p - 1]

\* seq[a:b] of Python for 0 <= a <= b
PySlice(s, a, b) ==
    IF a >= Min(b, Len(s)) THEN << >> ELSE SubSeq(s, a + 1, Min(b, Len(s)))

\* int(sqrt(n))
IntSqrt(n) == CHOOSE r \in 0..n : r * r <= n /\ (r + 1) * (r + 1) > n

\* int("d1d2..."): value of a decimal digit string
RECURSIVE ParseInt(_)
ParseInt(ds) ==
    IF ds = << >> THEN 0
    ELSE 10 * ParseInt(SubSeq(ds, 1, Len(ds) - 1)) + ds[Len(ds)]

\* str(n) for 0 <= n <= 99
ToDigits(n) == IF n < 10 THEN <<n>> ELSE <<n \div 10, n % 10>>

\* comparison of scores <<num, den>>, den > 0
ScoreGt(s, t) == s[1] * t[2] > t[1] * s[2]
ScoreGeq(s, t) == s[1] * t[2] >= t[1] * s[2]

\* sorted(s, key=lambda x: -Key[x]): Python's sort is stable, so element a
\* precedes element b iff its key is larger, or equal and a came first.
SortedDescBy(s, key) ==
    LET n == Len(s)
        Before(a, b) == ScoreGt(key[a], key[b])
                        \/ (~ScoreGt(key[b], key[a]) /\ a < b)
        pos(a) == 1 + Cardinality({b \in 1..n : Before(b, a)})
    IN [p \in 1..n |-> s[CHOOSE a \in 1..n : pos(a) = p]]

\* ------------------------------------------- input files of the model ----
TrainLines == UserIds \X ItemIds \X FeedbackVals
\* a train file: 1..MaxLines lines, one line per (user, item)
TrainFiles ==
    {f \in SubsetsUpTo(TrainLines, MaxLines) :
        /\ f # {}
        /\ \A l1, l2 \in f : (l1[1] = l2[1] /\ l1[2] = l2[2]) => l1 = l2}
\* a train file of implicit feedback: every line carries value 1
ImplicitTrainFiles == {f \in TrainFiles : \A l \in f : l[3] = 1}

\* a similarity file: at most MaxSimLines lines (item_a, item_b, value) about
\* two different items, one line per (item_a, item_b); column 2 is text
SimilarityLines ==
    {<<a, ToDigits(b), v>> : a \in ItemIds, b \in ItemIds, v \in SimFileVals}
SimilarityFiles ==
    {f \in SubsetsUpTo(SimilarityLines, MaxSimLines) :
        /\ \A l \in f : l[1] # ParseInt(l[2])
        /\ \A l1, l2 \in f : (l1[1] = l2[1] /\ l1[2] = l2[2]) => l1 = l2}

\* ---------------------- what the base class and the file reader supply ----
\* ReadFile(train_file, as_binary).read(): the users and the items of the
\* file in ascending order, the feedback of each user (1 for every line if
\* as_binary) and items_seen_by_user, the items of each user's lines whatever
\* their feedback value: every user of the file has at least one item
ReadTrain(file, binary) ==
    LET U == {l[1] : l \in file}
        LinesOf(u) == {l \in file : l[1] = u}
    IN [users |-> SortedSeq(U),
        items |-> SortedSeq({l[2] : l \in file}),
        feedback |-> [u \in U |->
            [i \in {l[2] : l \in LinesOf(u)} |->
                IF binary THEN 1
                ELSE (CHOOSE l \in LinesOf(u) : l[2] = i)[3]]],
        items_seen_by_user |-> [u \in U |-> {l[2] : l \in LinesOf(u)}]]

\* the inverse of a sequence without repetitions
IndexOf(seq) == [x \in Range(seq) |-> CHOOSE k \in 1..Len(seq) : seq[k] = x]

\* len(train_set['feedback'].get(user, []))
FeedbackLen(u) ==
    IF u \in DOMAIN train_set.feedback
    THEN Cardinality(DOMAIN train_set.feedback[u]) ELSE 0

\* create_matrix(): users x items, the feedback value or 0 if unobserved
create_matrix ==
    [u \in 1..Len(users) |-> [i \in 1..Len(items) |->
        IF /\ users[u] \in DOMAIN train_set.feedback
           /\ items[i] \in DOMAIN train_set.feedback[users[u]]
        THEN train_set.feedback[users[u]][items[i]]
        ELSE 0]]

Column(m, i) == [u \in 1..Len(m) |-> m[u][i]]
ZeroColumn(m, i) == \A u \in 1..Len(m) : m[u][i] = 0
\* pairs of different non-zero item columns: where the metric is free
ColumnPairs(m, n) ==
    {{Column(m, i), Column(m, j)} : i, j \in {k \in 1..n : ~ZeroColumn(m, k)}}
        \ {{Column(m, i)} : i \in 1..n}
\* The results a pairwise metric can give on the item columns of m: a value
\* per pair of different non-zero columns, and the convention for the
\* self-similarity of a zero column (0.0 or the metric's self-similarity).
MetricResults(m, n) ==
    {[pair |-> f, zero |-> z] :
        f \in [ColumnPairs(m, n) -> SimVals],
        z \in IF \E i \in 1..n : ZeroColumn(m, i) THEN {0, SimMax} ELSE {0}}
NoMetric == [pair |-> << >>, zero |-> 0]

\* compute_similarity(transpose=True) on the matrix m: item x item,
\* symmetric, no NaN.  Equal columns are as similar as a column is to
\* itself; a zero column has similarity 0.0 to every other column.
compute_similarity(m) ==
    LET n == Len(items)
        col == [i \in 1..n |-> Column(m, i)]
        zero == [i \in 1..n |-> ZeroColumn(m, i)]
    IN [i \in 1..n |-> [j \in 1..n |->
           IF i = j THEN (IF zero[i] THEN similarity_metric.zero ELSE SimMax)
           ELSE IF zero[i] \/ zero[j] THEN 0
           ELSE IF col[i] = col[j] THEN SimMax
           ELSE similarity_metric.pair[{col[i], col[j]}]]]

\* -------------------------------------------------------------- Init ----
Init ==
    /\ algo \in {"ItemKNN", "ContentBased"}
    /\ train_file \in IF algo = "ItemKNN" THEN TrainFiles ELSE ImplicitTrainFiles
    /\ test_users \in IF algo = "ItemKNN"
                      THEN {{}} \cup {{u} : u \in UserIds \ {l[1] : l \in train_file}}
                      ELSE {{}}
    /\ as_binary \in IF algo = "ItemKNN" THEN BOOLEAN ELSE {TRUE}
    /\ similarity_file \in IF algo = "ItemKNN" THEN {"None"} ELSE {"None", "file"}
    /\ similarity \in IF similarity_file = "None" THEN {{}} ELSE SimilarityFiles
    /\ train_set = ReadTrain(train_file, as_binary)
    /\ users = SortedSeq(Range(train_set.users) \cup test_users)
    /\ items = train_set.items
    /\ item_to_item_id = IndexOf(items)
    /\ similarity_metric \in IF algo = "ItemKNN"
                              THEN MetricResults(create_matrix, Len(items))
                              ELSE {NoMetric}
    /\ as_similar_first \in IF algo = "ItemKNN" THEN BOOLEAN ELSE {TRUE}
    /\ rank_length \in RankLengths
    /\ k_arg \in IF algo = "ItemKNN" THEN KConfigs ELSE {None}
    /\ k_neighbors = k_arg
    /\ matrix = NoMatrix
    /\ si_matrix = NoMatrix
    /\ similar_items = NoMatrix
    /\ users_profile = NoMatrix
    /\ ranking = << >>
    /\ state = "Uninitialized"
    /\ err = ""
    /\ run = 1
    /\ first_ranking = << >>

\* ----------------------------------------------------------- ItemKNN ----
\* sorted(range(len(row)), key=lambda k: -row[k])
SortedIndices(row) ==
    SortedDescBy([k \in 1..Len(row) |-> k], [k \in 1..Len(row) |-> <<row[k], 1>>])

\* the neighbours of item i_id: the sorted indices with the first dropped
Neighbors(sim, i_id, k) == PySlice(SortedIndices(sim[i_id]), 1, k + 1)

init_model_knn ==
    /\ algo = "ItemKNN"
    /\ state = "Uninitialized"
    /\ LET k == IF k_neighbors = None THEN IntSqrt(Len(items)) ELSE k_neighbors
           m == create_matrix
           sim == compute_similarity(m)
       IN /\ k_neighbors' = k
          /\ matrix' = m
          /\ si_matrix' = sim
          /\ similar_items' = [i_id \in 1..Len(items) |-> Neighbors(sim, i_id, k)]
    /\ state' = "ModelInitialized"
    /\ UNCHANGED <<inputs, users_profile, ranking, err, run, first_ranking>>

\* list(np.flatnonzero(self.matrix[user_id] == 0))
u_list(user_id) == SortedSeq({i \in 1..Len(items) : matrix[user_id][i] = 0})
\* np.flatnonzero(self.matrix[user_id])
seen_items_id(user_id) == SortedSeq({i \in 1..Len(items) : matrix[user_id][i] # 0})
\* np.take(row, ids)
Take(row, ids) == [p \in 1..Len(ids) |-> row[ids[p]]]

\* the sort left out: the predictions in the order they were appended
SortedByScore_Unsorted(predictions) == predictions

\* sorted(predictions, key=lambda x: -x[2])
SortedByScore(predictions) ==
    SortedDescBy(predictions, [p \in 1..Len(predictions) |-> predictions[p][3]])

\* sum(sorted(values, key=lambda x: -x)[:k])
SumOfFirst(values, k) ==
    SumSeq(PySlice(SortedDescBy(values, [p \in 1..Len(values) |-> <<values[p], 1>>]),
                   0, k))

\* score-all restricted by membership in the neighbour index
ScoreAll_ByMembership(user_id, i_id) ==
    SumSet(Range(similar_items[i_id]) \cap Range(seen_items_id(user_id)),
           si_matrix[i_id])

ScoreAll(user_id, i_id) ==
    SumOfFirst(Take(si_matrix[i_id], seen_items_id(user_id)), k_neighbors)

predict_scores(user, user_id) ==
    LET ul == u_list(user_id)
        partial_predictions ==
            [p \in 1..Len(ul) |-> <<user, items[ul[p]], <<ScoreAll(user_id, ul[p]), 1>>>>]
    IN PySlice(SortedByScore(partial_predictions), 0, rank_length)

\* similar-first without the intersection: every seen item contributes
SimilarFirst_AllSeen(user_id, i_id) ==
    SumSet(Range(seen_items_id(user_id)), si_matrix[i_id])

SimilarFirst(user_id, i_id) ==
    LET s_id == Range(similar_items[i_id]) \cap Range(seen_items_id(user_id))
    IN SumSet(s_id, si_matrix[i_id])

predict_similar_first_scores(user, user_id) ==
    LET ul == u_list(user_id)
        predictions ==
            [p \in 1..Len(ul) |-> <<user, items[ul[p]], <<SimilarFirst(user_id, ul[p]), 1>>>>]
    IN PySlice(SortedByScore(predictions), 0, rank_length)

UserRankKNN(u_id) ==
    IF FeedbackLen(users[u_id]) # 0
    THEN IF as_similar_first
         THEN predict_similar_first_scores(users[u_id], u_id)
         ELSE predict_scores(users[u_id], u_id)
    ELSE << >>

predict_knn ==
    /\ algo = "ItemKNN"
    /\ state = "ModelInitialized"
    /\ ranking' = ranking \o Concat([u_id \in 1..Len(users) |-> UserRankKNN(u_id)])
    /\ state' = "Predicted"
    /\ UNCHANGED <<inputs, k_neighbors, matrix, si_matrix, similar_items,
                   users_profile, err, run, first_ranking>>

\* ------------------------------------------------------ ContentBased ----
KnownLine(l) == l[1] \in DOMAIN item_to_item_id /\ ParseInt(l[2]) \in DOMAIN item_to_item_id

\* np.zeros((n, n)) with the cells of the lines L set
Filled(L) ==
    [i \in 1..Len(items) |-> [j \in 1..Len(items) |->
        IF \E l \in L : item_to_item_id[l[1]] = i /\ item_to_item_id[ParseInt(l[2])] = j
        THEN (CHOOSE l \in L : item_to_item_id[l[1]] = i
                               /\ item_to_item_id[ParseInt(l[2])] = j)[3]
        ELSE 0]]

\* m[np.isnan(m)] = 0.0
RemoveNaNs(m) ==
    [i \in DOMAIN m |-> [j \in DOMAIN m[i] |-> IF m[i][j] = NaN THEN 0 ELSE m[i][j]]]

\* init_model without the raise: a missing similarity file is let through
init_model_cb_NoRaise ==
    /\ algo = "ContentBased"
    /\ state = "Uninitialized"
    /\ si_matrix' = IF similarity_file # "None" /\ \A l \in similarity : KnownLine(l)
                    THEN RemoveNaNs(Filled(similarity)) ELSE si_matrix
    /\ state' = IF similarity_file # "None" /\ \E l \in similarity : ~KnownLine(l)
                THEN "Failed" ELSE "ModelInitialized"
    /\ err' = IF state' = "Failed" THEN "KeyError" ELSE ""
    /\ UNCHANGED <<inputs, k_neighbors, matrix, similar_items, users_profile,
                   ranking, run, first_ranking>>

init_model_cb ==
    /\ algo = "ContentBased"
    /\ state = "Uninitialized"
    /\ IF similarity_file # "None"
       THEN IF \A l \in similarity : KnownLine(l)
            THEN /\ si_matrix' = RemoveNaNs(Filled(similarity))
                 /\ state' = "ModelInitialized"
                 /\ err' = ""
            ELSE \* item_to_item_id[...] raises KeyError at the first line with
                 \* an item the train set does not have; the lines before it
                 \* (the file order is not modelled) are already written
                 /\ \E L \in SUBSET {l \in similarity : KnownLine(l)} :
                        si_matrix' = Filled(L)
                 /\ state' = "Failed"
                 /\ err' = "KeyError"
       ELSE /\ si_matrix' = si_matrix
            /\ state' = "Failed"
            /\ err' = "ValueError"
    /\ UNCHANGED <<inputs, k_neighbors, matrix, similar_items, users_profile,
                   ranking, run, first_ranking>>

create_user_profile ==
    /\ algo = "ContentBased"
    /\ state = "ModelInitialized"
    /\ users_profile' = train_set.items_seen_by_user
    /\ state' = "ProfileBuilt"
    /\ UNCHANGED <<inputs, k_neighbors, matrix, si_matrix, similar_items,
                   ranking, err, run, first_ranking>>

\* the matrix read transposed: row = profile item, column = candidate
predict_item_score_Transposed(user, item) ==
    LET sum_sim == SumSet({item_to_item_id[i] : i \in users_profile[user]},
                          [j \in 1..Len(items) |-> si_matrix[j][item_to_item_id[item]]])
    IN <<user, item, <<sum_sim, Cardinality(users_profile[user])>>>>

predict_item_score(user, item) ==
    LET sum_sim == SumSet({item_to_item_id[i] : i \in users_profile[user]},
                          si_matrix[item_to_item_id[item]])
    IN <<user, item, <<sum_sim, Cardinality(users_profile[user])>>>>

unseen_items(user) == Range(items) \ users_profile[user]

\* order: the order in which the set unseen_items is enumerated
predict_user_rank(user, order) ==
    LET list_scores == [p \in 1..Len(order) |-> predict_item_score(user, order[p])]
    IN PySlice(SortedByScore(list_scores), 0, rank_length)

\* the enumeration order of a Python set is not defined by the language
Enumerations ==
    LET U == Range(train_set.users)
        P == [u \in U |-> Perms(unseen_items(u))]
    IN {e \in [U -> UNION {P[u] : u \in U}] : \A u \in U : e[u] \in P[u]}

predict_cb ==
    /\ algo = "ContentBased"
    /\ state = "ProfileBuilt"
    /\ \E e \in Enumerations :
          ranking' = ranking \o
              Concat([k \in 1..Len(train_set.users) |->
                         predict_user_rank(train_set.users[k], e[train_set.users[k]])])
    /\ state' = "Predicted"
    /\ UNCHANGED <<inputs, k_neighbors, matrix, si_matrix, similar_items,
                   users_profile, err, run, first_ranking>>

\* ------------------------------------------ predict() before init_model ----
\* The object is constructed and the files are read, init_model() has not
\* run: matrix, si_matrix, similar_items and users_profile are None, and the
\* first subscript of one of them raises TypeError.  No method checks the
\* state of the object.
predict_uninitialized ==
    /\ state = "Uninitialized"
    /\ run = 1
    /\ IF algo = "ItemKNN"
       THEN IF \E u_id \in 1..Len(users) : FeedbackLen(users[u_id]) # 0
            THEN err' = "TypeError" /\ state' = "Failed"
            ELSE err' = "" /\ state' = "Predicted"
       ELSE IF train_set.users # << >>
            THEN err' = "TypeError" /\ state' = "Failed"
            ELSE err' = "" /\ state' = "Predicted"
    /\ UNCHANGED <<inputs, k_neighbors, matrix, si_matrix, similar_items,
                   users_profile, ranking, run, first_ranking>>

\* ------------------------------------------------- the pipeline, again ----
\* A second object is constructed with the same arguments on the same files.
NewRun ==
    /\ state = "Predicted"
    /\ run = 1
    /\ first_ranking' = ranking
    /\ run' = 2
    /\ k_neighbors' = k_arg
    /\ matrix' = NoMatrix
    /\ si_matrix' = NoMatrix
    /\ similar_items' = NoMatrix
    /\ users_profile' = NoMatrix
    /\ ranking' = << >>
    /\ state' = "Uninitialized"
    /\ err' = ""
    /\ UNCHANGED inputs

Next ==
    \/ init_model_knn
    \/ predict_knn
    \/ init_model_cb
    \/ create_user_profile
    \/ predict_cb
    \/ predict_uninitialized
    \/ NewRun

Spec == Init /\ [][Next]_vars

\* ============================================================ claims ====
RankedUsers == {ranking[k][1] : k \in 1..Len(ranking)}
PositionsOf(u) == {k \in 1..Len(ranking) : ranking[k][1] = u}
UserBlock(u) == SelectSeq(ranking, LAMBDA t : t[1] = u)
UserIndex(u) == CHOOSE k \in 1..Len(users) : users[k] = u
SeenInMatrix(u_id) == {j \in 1..Len(items) : matrix[u_id][j] # 0}
UnseenInMatrix(u_id) == {i \in 1..Len(items) : matrix[u_id][i] = 0}

\* C1: after predict() of either recommender no triple (u, i, score) of the
\* ranking names an item i of train_set.items_seen_by_user[u], whatever the train set,
\* feedback values of 0 included.
C1_NoSeenItemRecommended ==
    state = "Predicted" =>
        \A k \in 1..Len(ranking) :
            ranking[k][2] \notin train_set.items_seen_by_user[ranking[k][1]]

\* C2: after predict() the triples of each user of the ranking are one
\* contiguous block, with scores non-increasing from first to last, of at
\* most rank_length triples.
C2_UserBlocksSortedAndBounded ==
    state = "Predicted" =>
        \A u \in RankedUsers :
            LET P == PositionsOf(u)
            IN /\ \A a, b \in P : \A c \in a..b : c \in P
               /\ \A a \in P : (a + 1) \in P =>
                      ScoreGeq(ranking[a][3], ranking[a + 1][3])
               /\ Cardinality(P) <= rank_length

C2_Witness ==
    /\ state = "Predicted"
    /\ Cardinality(RankedUsers) >= 2
    /\ \E a \in 1..(Len(ranking) - 1) :
           /\ ranking[a][1] = ranking[a + 1][1]
           /\ ScoreGt(ranking[a][3], ranking[a + 1][3])
    /\ \E u \in RankedUsers : Cardinality(PositionsOf(u)) = rank_length


\* C3: after ItemKNN.init_model() every similar_items[i] has exactly
\* min(k_neighbors, n_items - 1) entries and does not contain i, whatever
\* the interaction matrix.
C3_NeighborIndexExcludesSelf ==
    (algo = "ItemKNN" /\ state \in {"ModelInitialized", "Predicted"}) =>
        \A i \in 1..Len(items) :
            /\ Len(similar_items[i]) = Min(k_neighbors, Len(items) - 1)
            /\ i \notin Range(similar_items[i])

\* C4: a ContentBased constructed without a similarity file: init_model()
\* raises ValueError and ends the run; the similarity matrix stays unset, no
\* user profile is built, predict() does not run and the ranking stays empty.
C4_MissingSimilarityFileFails ==
    [][(algo = "ContentBased" /\ similarity_file = "None") =>
          /\ init_model_cb => (state' = "Failed" /\ err' = "ValueError")
          /\ si_matrix' = NoMatrix
          /\ users_profile' = NoMatrix
          /\ ranking' = << >>
          /\ ~create_user_profile
          /\ ~predict_cb
          /\ state # "Failed"]_vars

C4_Witness ==
    /\ algo = "ContentBased"
    /\ similarity_file = "None"
    /\ state = "Failed"
    /\ err = "ValueError"

\* C5: predict() called before init_model() has completed is rejected with
\* an explicit ordering/state error and appends nothing to the ranking.
C5_PredictBeforeInitRejected ==
    [][predict_uninitialized =>
          (state' = "Failed" /\ err' = "StateError" /\ ranking' = ranking)]_vars

\* C6: every triple ContentBased ranks is (u, i, s) with s the sum over the
\* items j of the profile P(u) of S[idx(i)][idx(j)], divided by |P(u)| > 0.
C6_MeanSimilarity ==
    (algo = "ContentBased" /\ state = "Predicted") =>
        \A k \in 1..Len(ranking) :
            LET u == ranking[k][1]
                i == ranking[k][2]
                P == users_profile[u]
            IN /\ Cardinality(P) > 0
               /\ i \notin P
               /\ ranking[k][3] =
                      <<SumSet({item_to_item_id[j] : j \in P},
                               si_matrix[item_to_item_id[i]]),
                        Cardinality(P)>>

\* the scenario of the specification: items A = 1, B = 2, C = 3, P(u1) = {A}
ExampleTrain == {<<1, 1, 1>>, <<2, 2, 1>>, <<2, 3, 1>>}
\* the similarity triples (A, B, 0.8), (A, C, 0.2)
ExampleSimilarity == {<<1, ToDigits(2), 8>>, <<1, ToDigits(3), 2>>}
\* the similarity triples (B, A, 0.8), (C, A, 0.2)
ExampleTransposed == {<<2, ToDigits(1), 8>>, <<3, ToDigits(1), 2>>}
ExampleRun(sim) ==
    /\ algo = "ContentBased"
    /\ state = "Predicted"
    /\ train_file = ExampleTrain
    /\ similarity = sim
    /\ rank_length = 2

\* C6 as claimed: the mean similarity, and with the triples (A, B, 0.8),
\* (A, C, 0.2) and P(u1) = {A} the ranking of u1 is [(u1, B, 0.8), (u1, C, 0.2)].
C6_AsClaimed ==
    /\ C6_MeanSimilarity
    /\ ExampleRun(ExampleSimilarity) =>
           UserBlock(1) = << <<1, 2, <<8, 1>>>>, <<1, 3, <<2, 1>>>> >>

\* C6 as amended: the mean similarity; the triples (A, B, 0.8), (A, C, 0.2)
\* set S[A][B] and S[A][C] only, so with P(u1) = {A} the scores of B and C
\* are 0.0; the triples (B, A, 0.8), (C, A, 0.2) give the ranking
\* [(u1, B, 0.8), (u1, C, 0.2)].
C6_Amended ==
    /\ C6_MeanSimilarity
    /\ ExampleRun(ExampleSimilarity) =>
           {UserBlock(1)[k][3] : k \in 1..Len(UserBlock(1))} = {<<0, 1>>}
    /\ ExampleRun(ExampleTransposed) =>
           UserBlock(1) = << <<1, 2, <<8, 1>>>>, <<1, 3, <<2, 1>>>> >>

C6_Witness ==
    /\ ExampleRun(ExampleTransposed)
    /\ UserBlock(1) = << <<1, 2, <<8, 1>>>>, <<1, 3, <<2, 1>>>> >>

\* C7: in similar-first mode every triple (u, i, s) is about an unseen item
\* i, and s is the sum of S[i][j] over exactly the items j that are in
\* similar_items[i] and seen by u (non-zero in the interaction matrix); 0 if
\* there is none.  Every unseen item is scored: a user's block holds
\* min(rank_length, number of unseen items) different items.
C7_SimilarFirstScore ==
    (algo = "ItemKNN" /\ as_similar_first /\ state = "Predicted") =>
        /\ \A k \in 1..Len(ranking) :
               LET u_id == UserIndex(ranking[k][1])
                   i == item_to_item_id[ranking[k][2]]
                   both == {j \in SeenInMatrix(u_id) :
                               \E p \in 1..Len(similar_items[i]) :
                                   similar_items[i][p] = j}
               IN /\ i \in UnseenInMatrix(u_id)
                  /\ ranking[k][3] = <<SumSet(both, si_matrix[i]), 1>>
        /\ \A u \in Range(train_set.users) :
               /\ Cardinality(PositionsOf(u)) =
                      Min(rank_length, Cardinality(UnseenInMatrix(UserIndex(u))))
               /\ \A a, b \in PositionsOf(u) :
                      ranking[a][2] = ranking[b][2] => a = b

C7_Witness ==
    /\ algo = "ItemKNN"
    /\ as_similar_first
    /\ state = "Predicted"
    /\ \E k \in 1..Len(ranking) :
           LET u_id == UserIndex(ranking[k][1])
               i == item_to_item_id[ranking[k][2]]
           IN /\ ranking[k][3][1] > 0
              /\ \E j \in SeenInMatrix(u_id) :
                     j \notin Range(similar_items[i]) /\ si_matrix[i][j] > 0

C9_RerunSameRanking ==
    (state = "Predicted" /\ run = 2) => ranking = first_ranking

\* C10: ContentBased.init_model() with a similarity file never fails on a
\* triple that names an item unknown to the train data, and builds S with
\* S[idx(a)][idx(b)] the supplied value (0.0 for a supplied NaN) for every
\* supplied (a, b) of known items and 0.0 in every other cell.
C10_SimilarityMatrixAsSupplied ==
    (algo = "ContentBased" /\ similarity_file = "file") =>
        /\ err # "KeyError"
        /\ state \in {"ModelInitialized", "ProfileBuilt", "Predicted"} =>
               \A a, b \in Range(items) :
                   LET cell == si_matrix[item_to_item_id[a]][item_to_item_id[b]]
                       L == {l \in similarity : l[1] = a /\ ParseInt(l[2]) = b}
                   IN /\ cell # NaN
                      /\ L = {} => cell = 0
                      /\ \A l \in L : cell = IF l[3] = NaN THEN 0 ELSE l[3]

====
